---- MODULE Spec2Model ----
(***************************************************************************)
(* Batch solving of constrained spanning-arborescence instances:           *)
(*   src/solving.py  - solve driver, results table, batch orchestrator     *)
(*   src/model.py    - create_model, the MILP builder                      *)
(*                                                                         *)
(* Three specifications share the variables below.                         *)
(*   Spec        the batch loop of solve_instances (solving.py 59-83)      *)
(*               driven by solve_instances_write_table (108-128), with the *)
(*               worker processes as separate actors; runs are repeated on *)
(*               the table file the previous run left behind.              *)
(*   SpecModule  the module as it is imported: solve_instances_directory   *)
(*               (157-182) calling solve_instances_write_table, whose call *)
(*               at line 128 resolves the global name solve_instances to   *)
(*               the definition of line 195.                               *)
(*   SpecBuild   create_model (model.py 15-94) on small instances and the  *)
(*               0/1 assignments its constraints accept.                   *)
(***************************************************************************)
EXTENDS Integers, Sequences, FiniteSets, TLC

VARIABLES
    binding,      \* what the global name solve_instances is bound to at line 128
    pc,           \* position of the controller
    ids,          \* instance_ids, the argument of the batch call
    run,          \* number of the current batch run (1 = first)
    cwdOut,       \* exists(output_dir), relative to the working directory
    dirOut,       \* exists(directory + "/" + output_dir)
    file,         \* the table file: [exists, rows], rows of [text, info]
    file0,        \* history: the table file as the current run found it
    table,        \* the DataFrame in memory: rows of [label, info]
    unsolved_instance_ids,
    idx,          \* position of the for loop of line 72 in unsolved_instance_ids
    return_dict,  \* the manager dict: [has, info]
    info,         \* the local info of line 81
    procs,        \* the worker processes started in this run, in start order
    exc,          \* the exception the current call ended with, "none" if none
    inst,         \* SpecBuild: the instance handed to create_model
    built,        \* SpecBuild: what create_model returned or raised
    sol           \* SpecBuild: a candidate 0/1 assignment of x and y

vars == << binding, pc, ids, run, cwdOut, dirOut, file, file0, table,
           unsolved_instance_ids, idx, return_dict, info, procs, exc,
           inst, built, sol >>

batchVars == << binding, pc, ids, run, cwdOut, dirOut, file, file0, table,
                unsolved_instance_ids, idx, return_dict, info, procs, exc >>

buildVars == << inst, built, sol >>

----------------------------------------------------------------------------
(* Bounds of the model *)

\* longest instance_ids list
MaxLen == 3

\* number of batch runs chained on the same table file
MaxRuns == 2

\* identifiers: strings; "7" is one that reads as a number
Ids == {"7", "a", "b"}

NumericIds == {"7"}

RECURSIVE SeqsUpTo(_, _)
SeqsUpTo(S, n) ==
    IF n = 0 THEN { <<>> }
    ELSE LET shorter == SeqsUpTo(S, n - 1)
         IN  shorter \cup { Append(s, x) : s \in { t \in shorter : Len(t) = n - 1 }, x \in S }

IdLists == SeqsUpTo(Ids, MaxLen)

\* terminal statuses of a solve that produced a solution
SolutionStatuses == {"optimal", "time limit"}

NoInfo == [status |-> "none"]

NoFile == [exists |-> FALSE, rows |-> <<>>]

----------------------------------------------------------------------------
(* The results table: solving.py 85-106 and 123-124 *)

Range(s) == { s[i] : i \in 1..Len(s) }

\* an index label as pandas holds it: the str "7" and the int 7 are different labels
StrLabel(id) == [kind |-> "str", text |-> id]

\* create_table: an empty frame
create_table == <<>>

\* to_csv writes a label as its text, whatever its type
SaveRow(r) == [text |-> r.label.text, info |-> r.info]

\* save_table: the whole frame replaces the file
save_table(t) == [exists |-> TRUE, rows |-> [i \in 1..Len(t) |-> SaveRow(t[i])]]

\* read_csv infers the type of the index column from all of its cells: a column
\* whose every cell reads as an integer becomes an integer index
IndexKind(rows) ==
    IF Len(rows) > 0 /\ \A i \in 1..Len(rows) : rows[i].text \in NumericIds
    THEN "int" ELSE "str"

\* load_table
load_table(f) ==
    [i \in 1..Len(f.rows) |->
        [label |-> [kind |-> IndexKind(f.rows), text |-> f.rows[i].text],
         info  |-> f.rows[i].info]]

\* instance_id in table.index
InIndex(t, id) == \E i \in 1..Len(t) : t[i].label = StrLabel(id)

\* unsolved (123-124)
unsolved(t, id) == ~InIndex(t, id)

\* register_instance_info: table.loc[instance_id] = line overwrites the rows
\* labelled instance_id and appends a row when there is none
register_instance_info(t, id, inf) ==
    IF InIndex(t, id)
    THEN [i \in 1..Len(t) |->
            IF t[i].label = StrLabel(id) THEN [t[i] EXCEPT !.info = inf] ELSE t[i]]
    ELSE Append(t, [label |-> StrLabel(id), info |-> inf])

RECURSIVE FilterMutant(_, _)
FilterMutant(t, s) ==
    IF s = <<>> THEN <<>>
    ELSE IF ~InIndex(t, Head(s)) THEN FilterMutant(t, Tail(s)) \o <<Head(s)>>
         ELSE FilterMutant(t, Tail(s))

\* list(filter(unsolved, instance_ids)) (126): the unsolved ones, in list order
RECURSIVE Filter(_, _)
Filter(t, s) ==
    IF s = <<>> THEN <<>>
    ELSE IF unsolved(t, Head(s)) THEN <<Head(s)>> \o Filter(t, Tail(s))
         ELSE Filter(t, Tail(s))

\* rows of the file whose identifier text is id
FileRows(f, id) == { i \in 1..Len(f.rows) : f.rows[i].text = id }

\* the file holds the frame: same rows, same order, labels by their text
Flushed == file.rows = [i \in 1..Len(table) |-> SaveRow(table[i])]

----------------------------------------------------------------------------
(* solve_instances_write_table: solving.py 108-128 *)

\* 113-116: load the table file or create an empty frame
WriteTableLoad ==
    /\ pc = "write_table"
    /\ table' = IF file.exists THEN load_table(file) ELSE create_table
    /\ file0' = file
    /\ pc' = "filter"
    /\ UNCHANGED << binding, ids, run, cwdOut, dirOut, file, unsolved_instance_ids,
                    idx, return_dict, info, procs, exc, buildVars >>

\* 126: unsolved_instance_ids = list(filter(unsolved, instance_ids))
WriteTableFilter ==
    /\ pc = "filter"
    /\ unsolved_instance_ids' = Filter(table, ids)
    /\ pc' = "call"
    /\ UNCHANGED << binding, ids, run, cwdOut, dirOut, file, file0, table,
                    idx, return_dict, info, procs, exc, buildVars >>

\* 128 with solve_instances bound to the definition of 59-83; 69-70 make the
\* manager and a fresh, empty return_dict
CallSolveInstances ==
    /\ pc = "call"
    /\ binding = "def59"
    /\ return_dict' = [has |-> FALSE, info |-> NoInfo]
    /\ idx' = 1
    /\ pc' = "for"
    /\ UNCHANGED << binding, ids, run, cwdOut, dirOut, file, file0, table,
                    unsolved_instance_ids, info, procs, exc, buildVars >>

\* 128 with solve_instances bound to the definition of 195-200, which takes no
\* argument: the call with five arguments raises TypeError
CallShadowed ==
    /\ pc = "call"
    /\ binding = "def195"
    /\ exc' = "TypeError"
    /\ pc' = "ended"
    /\ UNCHANGED << binding, ids, run, cwdOut, dirOut, file, file0, table,
                    unsolved_instance_ids, idx, return_dict, info, procs, buildVars >>

----------------------------------------------------------------------------
(* solve_instances: solving.py 59-83 *)

\* 72: the list is exhausted, the call returns
LoopReturn ==
    /\ pc = "for"
    /\ idx > Len(unsolved_instance_ids)
    /\ exc' = "none"
    /\ pc' = "ended"
    /\ UNCHANGED << binding, ids, run, cwdOut, dirOut, file, file0, table,
                    unsolved_instance_ids, idx, return_dict, info, procs, buildVars >>

\* 73-75: instance_getter, instance_filename_getter and create_model succeed
Prepare ==
    /\ pc = "for"
    /\ idx <= Len(unsolved_instance_ids)
    /\ pc' = "start"
    /\ UNCHANGED << binding, ids, run, cwdOut, dirOut, file, file0, table,
                    unsolved_instance_ids, idx, return_dict, info, procs, exc, buildVars >>

\* 73-75: the instance files are malformed or the build raises; the exception
\* leaves solve_instances
PrepareRaises ==
    /\ pc = "for"
    /\ idx <= Len(unsolved_instance_ids)
    /\ \E e \in {"MalformedInput", "BuildError"} : exc' = e
    /\ pc' = "ended"
    /\ UNCHANGED << binding, ids, run, cwdOut, dirOut, file, file0, table,
                    unsolved_instance_ids, idx, return_dict, info, procs, buildVars >>

\* 77-78: subprocess = mp.Process(...); subprocess.start()
StartWorker ==
    /\ pc = "start"
    /\ procs' = Append(procs, [id |-> unsolved_instance_ids[idx], state |-> "running",
                               outcome |-> "pending"])
    /\ pc' = "join"
    /\ UNCHANGED << binding, ids, run, cwdOut, dirOut, file, file0, table,
                    unsolved_instance_ids, idx, return_dict, info, exc, buildVars >>

JoinReadyMutant(p) == TRUE

\* 79: subprocess.join() returns once the worker has exited
JoinReady(p) == p.state = "exited"

Join ==
    /\ pc = "join"
    /\ JoinReady(procs[Len(procs)])
    /\ pc' = "read"
    /\ UNCHANGED << binding, ids, run, cwdOut, dirOut, file, file0, table,
                    unsolved_instance_ids, idx, return_dict, info, procs, exc, buildVars >>

\* 81: info = return_dict['info'], there is an entry
ReadResult ==
    /\ pc = "read"
    /\ return_dict.has
    /\ info' = return_dict.info
    /\ pc' = "action"
    /\ UNCHANGED << binding, ids, run, cwdOut, dirOut, file, file0, table,
                    unsolved_instance_ids, idx, return_dict, procs, exc, buildVars >>

\* 81: no worker of this call has stored an entry: KeyError
ReadKeyError ==
    /\ pc = "read"
    /\ ~return_dict.has
    /\ exc' = "KeyError"
    /\ pc' = "ended"
    /\ UNCHANGED << binding, ids, run, cwdOut, dirOut, file, file0, table,
                    unsolved_instance_ids, idx, return_dict, info, procs, buildVars >>

register_into_tableMutant(t, id, inf) ==
    [table |-> register_instance_info(t, id, inf), file |-> file]

\* register_into_table (118-121): the row, then the whole table to the file
register_into_table(t, id, inf) ==
    LET t2 == register_instance_info(t, id, inf)
    IN  [table |-> t2, file |-> save_table(t2)]

\* 83: action(instance_id, info), then the next iteration
Action ==
    /\ pc = "action"
    /\ LET r == register_into_table(table, unsolved_instance_ids[idx], info)
       IN  /\ table' = r.table
           /\ file' = r.file
    /\ idx' = idx + 1
    /\ pc' = "for"
    /\ UNCHANGED << binding, ids, run, cwdOut, dirOut, file0,
                    unsolved_instance_ids, return_dict, info, procs, exc, buildVars >>

----------------------------------------------------------------------------
(* The worker process: solve_model_subprocess (64-67) running solve_model (32-57) *)

\* 39-57, 67: model.solve returns a solution; its details become the info that
\* is stored under 'info'
WorkerDelivers(k) ==
    /\ procs[k].state = "running"
    /\ \E s \in SolutionStatuses :
          /\ procs' = [procs EXCEPT ![k] = [@ EXCEPT !.state = "exited", !.outcome = s]]
          /\ return_dict' = [has |-> TRUE, info |-> [status |-> s]]
    /\ UNCHANGED << binding, pc, ids, run, cwdOut, dirOut, file, file0, table,
                    unsolved_instance_ids, idx, info, exc, buildVars >>

\* 39, 44: the model is infeasible, model.solve returns None and
\* solution.export_as_mst raises AttributeError in the worker: nothing is stored
WorkerInfeasible(k) ==
    /\ procs[k].state = "running"
    /\ procs' = [procs EXCEPT ![k] = [@ EXCEPT !.state = "exited", !.outcome = "infeasible"]]
    /\ UNCHANGED << binding, pc, ids, run, cwdOut, dirOut, file, file0, table,
                    unsolved_instance_ids, idx, return_dict, info, exc, buildVars >>

\* the worker is killed (memory limit, solver crash): nothing is stored
WorkerCrashes(k) ==
    /\ procs[k].state = "running"
    /\ procs' = [procs EXCEPT ![k] = [@ EXCEPT !.state = "exited", !.outcome = "crash"]]
    /\ UNCHANGED << binding, pc, ids, run, cwdOut, dirOut, file, file0, table,
                    unsolved_instance_ids, idx, return_dict, info, exc, buildVars >>

Worker ==
    \E k \in 1..Len(procs) :
        \/ WorkerDelivers(k)
        \/ WorkerInfeasible(k)
        \/ WorkerCrashes(k)

----------------------------------------------------------------------------
(* A later run: a new controller process on the files the last one left *)

FreshProcess ==
    /\ table' = create_table
    /\ unsolved_instance_ids' = <<>>
    /\ idx' = 1
    /\ return_dict' = [has |-> FALSE, info |-> NoInfo]
    /\ info' = NoInfo
    /\ procs' = <<>>
    /\ exc' = "none"

\* the same entry point is called again
Rerun ==
    /\ pc = "ended"
    /\ run < MaxRuns
    /\ run' = run + 1
    /\ pc' = IF binding = "def59" THEN "write_table" ELSE "directory"
    /\ file0' = file
    /\ FreshProcess
    /\ UNCHANGED << binding, ids, cwdOut, dirOut, file, buildVars >>

----------------------------------------------------------------------------
(* solve_instances_directory: solving.py 157-182 *)

\* 166-167: exists(output_dir) is False and directory/output_dir is missing:
\* mkdir creates it
MkdirCreates ==
    /\ pc = "directory"
    /\ ~cwdOut
    /\ ~dirOut
    /\ dirOut' = TRUE
    /\ pc' = "write_table"
    /\ UNCHANGED << binding, ids, run, cwdOut, file, file0, table, unsolved_instance_ids,
                    idx, return_dict, info, procs, exc, buildVars >>

\* 166-167: exists(output_dir) is False and directory/output_dir is there:
\* mkdir raises FileExistsError
MkdirFails ==
    /\ pc = "directory"
    /\ ~cwdOut
    /\ dirOut
    /\ exc' = "FileExistsError"
    /\ pc' = "ended"
    /\ UNCHANGED << binding, ids, run, cwdOut, dirOut, file, file0, table,
                    unsolved_instance_ids, idx, return_dict, info, procs, buildVars >>

\* 166: exists(output_dir) is True: no mkdir, whatever directory/output_dir is
MkdirSkipped ==
    /\ pc = "directory"
    /\ cwdOut
    /\ pc' = "write_table"
    /\ UNCHANGED << binding, ids, run, cwdOut, dirOut, file, file0, table,
                    unsolved_instance_ids, idx, return_dict, info, procs, exc, buildVars >>

\* the builder's variables while the batch is modelled
NoInstance == [n |-> 0, E |-> {}, root |-> 0, D |-> {}, lb_dep |-> <<>>, ub_dep |-> <<>>]

NotBuilt == [status |-> "pending", constraints |-> {}]

NoSol == [x |-> <<>>, y |-> <<>>, picked |-> FALSE]

BuildIdle ==
    /\ inst = NoInstance
    /\ built = NotBuilt
    /\ sol = NoSol

Init ==
    /\ binding = "def59"
    /\ pc = "write_table"
    /\ ids \in IdLists
    /\ run = 1
    /\ cwdOut = TRUE
    /\ dirOut = TRUE
    /\ file = NoFile
    /\ file0 = NoFile
    /\ table = create_table
    /\ unsolved_instance_ids = <<>>
    /\ idx = 1
    /\ return_dict = [has |-> FALSE, info |-> NoInfo]
    /\ info = NoInfo
    /\ procs = <<>>
    /\ exc = "none"
    /\ BuildIdle

Next ==
    \/ WriteTableLoad
    \/ WriteTableFilter
    \/ CallSolveInstances
    \/ LoopReturn
    \/ Prepare
    \/ PrepareRaises
    \/ StartWorker
    \/ Join
    \/ ReadResult
    \/ ReadKeyError
    \/ Action
    \/ Worker
    \/ Rerun

Spec == Init /\ [][Next]_vars

\* the module as imported: solve_instances is the definition of line 195
InitModule ==
    /\ binding = "def195"
    /\ pc = "directory"
    /\ ids \in IdLists
    /\ run = 1
    /\ cwdOut \in BOOLEAN
    /\ dirOut \in BOOLEAN
    /\ file = NoFile
    /\ file0 = NoFile
    /\ table = create_table
    /\ unsolved_instance_ids = <<>>
    /\ idx = 1
    /\ return_dict = [has |-> FALSE, info |-> NoInfo]
    /\ info = NoInfo
    /\ procs = <<>>
    /\ exc = "none"
    /\ BuildIdle

NextModule ==
    \/ MkdirCreates
    \/ MkdirFails
    \/ MkdirSkipped
    \/ WriteTableLoad
    \/ WriteTableFilter
    \/ CallShadowed
    \/ Rerun

SpecModule == InitModule /\ [][NextModule]_vars

----------------------------------------------------------------------------
(* Properties of the batch run *)

Delivered(k) == procs[k].outcome \in SolutionStatuses

InLoop == pc \in {"for", "start", "join", "read", "action"}

\* the iteration of worker k has run its action
IterationDone(k) == k < Len(procs) \/ pc \in {"for", "start"}

WorkersOf(id) == { k \in 1..Len(procs) : procs[k].id = id }

RECURSIVE Dedup(_)
Dedup(s) ==
    IF s = <<>> THEN <<>>
    ELSE LET front == Dedup(SubSeq(s, 1, Len(s) - 1))
             last  == s[Len(s)]
         IN  IF last \in Range(front) THEN front ELSE Append(front, last)

\* the identifiers of the workers of this run, in start order
ProcIds == [k \in 1..Len(procs) |-> procs[k].id]

\* a is b with some entries left out, the others in b's order
RECURSIVE IsSubseq(_, _)
IsSubseq(a, b) ==
    IF a = <<>> THEN TRUE
    ELSE IF b = <<>> THEN FALSE
    ELSE IF Head(a) = Head(b) /\ IsSubseq(Tail(a), Tail(b)) THEN TRUE
    ELSE IsSubseq(a, Tail(b))

\* the texts of the rows this run added to the file, in file order
AddedTexts ==
    [i \in 1..(Len(file.rows) - Len(file0.rows)) |-> file.rows[Len(file0.rows) + i].text]

\* C1: a second run on the same list, from the file the first run persisted,
\* ends with no identifier in two rows and starts no worker for an identifier
\* that had a row in that file; when it returns, every identifier has its row.
C1_SecondRunIsIdempotent ==
    (run = 2 /\ pc = "ended") =>
        /\ \A id \in Range(ids) : Cardinality(FileRows(file, id)) <= 1
        /\ \A k \in 1..Len(procs) : FileRows(file0, procs[k].id) = {}
        /\ exc = "none" => \A id \in Range(ids) : Cardinality(FileRows(file, id)) = 1

\* C2: every step the controller takes after the worker of the current identifier
\* has ended without storing a result leaves the table and the table file as they were.
C2_LostResultLeavesTableAlone ==
    [][ ( /\ pc \in {"read", "action"}
          /\ procs # <<>>
          /\ procs[Len(procs)].outcome = "crash" )
        => (table' = table /\ file' = file) ]_vars

\* C3: a call in which no load, build or solve failed returns, and every identifier of
\* the list that had no row when the call started has had exactly one worker and has
\* exactly one row in the file.
C3_EachUnrecordedSolvedOnce ==
    ( /\ pc = "ended"
      /\ exc \notin {"MalformedInput", "BuildError", "FileExistsError"}
      /\ \A k \in 1..Len(procs) : Delivered(k) )
    => /\ exc = "none"
       /\ \A id \in Range(ids) :
             FileRows(file0, id) = {} =>
                 /\ Cardinality(WorkersOf(id)) = 1
                 /\ Cardinality(FileRows(file, id)) = 1

C5_RowsInListOrder ==
    InLoop =>
        /\ IsSubseq(ProcIds, ids)
        /\ \A k \in 1..Len(procs) :
              \A p \in 1..(k - 1) : FileRows(file, procs[p].id) # {}
        /\ AddedTexts = Dedup(SubSeq(ProcIds, 1, idx - 1))

C5_Witness ==
    /\ pc = "join"
    /\ Len(procs) = 2
    /\ procs[1].id # procs[2].id
    /\ Delivered(1)
    /\ procs[2].state = "running"
    /\ AddedTexts = << procs[1].id >>

\* C6: a worker whose model is infeasible stores an info of status "infeasible", the row
\* of its identifier gets that status, and the batch does not end on it.
C6_InfeasibleIsReported ==
    \A k \in 1..Len(procs) :
        procs[k].outcome = "infeasible" =>
            /\ (k = Len(procs) /\ pc = "read") =>
                   (return_dict.has /\ return_dict.info.status = "infeasible")
            /\ IterationDone(k) =>
                   \E i \in 1..Len(table) :
                       /\ table[i].label = StrLabel(procs[k].id)
                       /\ table[i].info.status = "infeasible"
            /\ exc # "KeyError"

Alive == { k \in 1..Len(procs) : procs[k].state = "running" }

\* C9: at most one worker is alive, and none is while the controller prepares or starts
\* the next worker, reads return_dict or runs the action on the table.
C9_OneWorkerAtATime ==
    /\ Cardinality(Alive) <= 1
    /\ pc \in {"for", "start", "read", "action"} => Alive = {}

C9_Witness ==
    /\ pc = "join"
    /\ Len(procs) = 3
    /\ Alive = {3}

\* C10: solve_instances_directory never ends on the mkdir of the output directory, and
\* the directory exists whenever the batch (solve_instances_write_table) is entered.
C10_OutputDirectoryReady ==
    /\ exc # "FileExistsError"
    /\ pc \in {"write_table", "filter", "call"} => dirOut

----------------------------------------------------------------------------
(* Instances: model.py 8-13 *)

\* numbers of vertices of the graphs the builder is run on
VertexCounts == {1, 2, 3}

\* most arcs of a dependency digraph
MaxArcs == 4

\* largest dependency bound in a bounds file
MaxBound == 2

\* the edges a graph on 0..n-1 can have, as edge_iterator yields them: (u, v), u < v
PossibleEdges(n) == { e \in (0..(n - 1)) \X (0..(n - 1)) : e[1] < e[2] }

Neighbors(E, v) == { u \in { e[1] : e \in E } \cup { e[2] : e \in E } :
                        <<u, v>> \in E \/ <<v, u>> \in E }

\* the vertices within k edges of r
RECURSIVE Ball(_, _, _)
Ball(E, r, k) ==
    IF k = 0 THEN {r}
    ELSE LET b == Ball(E, r, k - 1)
         IN  b \cup { v \in UNION { Neighbors(E, u) : u \in b } : TRUE }

\* g.distance(root, v) on a connected graph
distance(n, E, r, v) == CHOOSE k \in 0..n : v \in Ball(E, r, k) /\ \A j \in 0..(k - 1) : v \notin Ball(E, r, j)

Connected(n, E) == Ball(E, 0, n) = 0..(n - 1)

\* both orientations of the edges: the keys of y
ArcsOf(E) == E \cup { <<e[2], e[1]>> : e \in E }

\* the dependency digraphs over the edge indices 0..m-1: no loops, at most MaxArcs arcs
Digraphs(m) ==
    { D \in SUBSET { a \in (0..(m - 1)) \X (0..(m - 1)) : a[1] # a[2] } : Cardinality(D) <= MaxArcs }

\* the instances on the connected graph (n, E): any root, any dependency digraph, and
\* one pair of bounds (within or outside 0 <= lb <= ub <= in-degree) for all its edges
InstancesOn(n, E) ==
    { [n |-> n, E |-> E, root |-> r, D |-> D,
       lb_dep |-> [e \in E |-> L], ub_dep |-> [e \in E |-> U]] :
        r \in 0..(n - 1), D \in Digraphs(Cardinality(E)), L \in 0..MaxBound, U \in 0..MaxBound }

\* the valid instances: a connected graph and a root that is one of its vertices
Instances ==
    UNION { UNION { InstancesOn(n, E) : E \in { F \in SUBSET PossibleEdges(n) : Connected(n, F) } } :
            n \in VertexCounts }

\* the 0/1 assignments of the x and y variables (40-45) in which every edge is left
\* out, taken from u to v, or taken from v to u; any other assignment breaks
\* x_uv = y_uv + y_vu
Assignments(i) ==
    { [x |-> [e \in i.E |-> IF o[e] = 0 THEN 0 ELSE 1],
       y |-> [a \in ArcsOf(i.E) |->
                IF a \in i.E THEN (IF o[a] = 1 THEN 1 ELSE 0)
                ELSE (IF o[<<a[2], a[1]>>] = 2 THEN 1 ELSE 0)],
       picked |-> TRUE] : o \in [i.E -> 0..2] }

----------------------------------------------------------------------------
(* create_model: model.py 15-94 *)

RECURSIVE SumOver(_, _)
SumOver(S, f) ==
    IF S = {} THEN 0
    ELSE LET k == CHOOSE k \in S : TRUE IN f[k] + SumOver(S \ {k}, f)

\* 29-33: e_to_index numbers the edges in the order edge_iterator yields them
e_to_index(E, e) ==
    Cardinality({ f \in E : f[1] < e[1] \/ (f[1] = e[1] /\ f[2] < e[2]) })

\* 29-33: index_to_e, the edge of a digraph vertex
index_to_e(E, k) == CHOOSE e \in E : e_to_index(E, e) = k

\* d.neighbor_in_iterator(e_to_index[u, v])
neighbor_in(i, e) == { a[1] : a \in { b \in i.D : b[2] = e_to_index(i.E, e) } }

\* sum(x[index_to_e[dep_idx]] for dep_idx in d.neighbor_in_iterator(e_to_index[u, v]))
DepSum(i, e, x) ==
    SumOver({ index_to_e(i.E, k) : k \in neighbor_in(i, e) }, x)

\* 85: num_deps = d.in_degree(e_to_index[u, v])
num_deps(i, e) == Cardinality({ b \in i.D : b[2] = e_to_index(i.E, e) })

DepLowerMutant(i, e, x) == DepSum(i, e, x) >= i.lb_dep[e]

\* 81-83: sum of the predecessors' x >= lb_dep[u, v] * x[u, v]
DepLower(i, e, x) == DepSum(i, e, x) >= i.lb_dep[e] * x[e]

\* 86-88: sum of the predecessors' x <= num_deps - (num_deps - ub_dep[u, v]) * x[u, v]
DepUpper(i, e, x) ==
    DepSum(i, e, x) <= num_deps(i, e) - (num_deps(i, e) - i.ub_dep[e]) * x[e]

\* 72-76: for an edge whose v is not root, or whose u is not root, the right-hand side
\* (n - g.distance(root, v))(1 - y[u, v]) calls an integer: TypeError
LevelOrderRaises(i) == \E e \in i.E : e[2] # i.root \/ e[1] # i.root

\* the constraints create_model adds, each with the line that adds it
Constraints(i) ==
    { [kind |-> "link", e |-> e] : e \in i.E }                        \* 54-55
    \cup { [kind |-> "cardinality", e |-> <<>>] }                      \* 58
    \cup { [kind |-> "inbound", e |-> <<v>>] : v \in (0..(i.n - 1)) \ {i.root} }   \* 61-63
    \cup { [kind |-> "root_inbound", e |-> <<>>] }                     \* 66
    \cup { [kind |-> "root_level", e |-> <<>>] }                       \* 69
    \cup { [kind |-> "dep_lower", e |-> e] : e \in i.E }               \* 81-83
    \cup { [kind |-> "dep_upper", e |-> e] : e \in i.E }               \* 86-88

\* create_model: the model it returns, or the exception it ends with
create_model(i) ==
    IF LevelOrderRaises(i)
    THEN [status |-> "TypeError", constraints |-> {}]
    ELSE [status |-> "model", constraints |-> Constraints(i)]

\* 49, 69: level variables within their bounds, distance + 1 <= l[v] <= n, with l[root] = 1
LevelsExist(i) ==
    \E l \in [0..(i.n - 1) -> 1..i.n] :
        /\ \A v \in 0..(i.n - 1) : distance(i.n, i.E, i.root, v) + 1 <= l[v]
        /\ l[i.root] = 1

\* an assignment satisfies one constraint
Satisfies(i, c, a) ==
    CASE c.kind = "link"         -> a.x[c.e] = a.y[c.e] + a.y[<<c.e[2], c.e[1]>>]
      [] c.kind = "cardinality"  -> SumOver(ArcsOf(i.E), a.y) = i.n - 1
      [] c.kind = "inbound"      -> SumOver({ <<u, c.e[1]>> : u \in Neighbors(i.E, c.e[1]) }, a.y) = 1
      [] c.kind = "root_inbound" -> SumOver({ <<u, i.root>> : u \in Neighbors(i.E, i.root) }, a.y) = 0
      [] c.kind = "root_level"   -> LevelsExist(i)
      [] c.kind = "dep_lower"    -> DepLower(i, c.e, a.x)
      [] c.kind = "dep_upper"    -> DepUpper(i, c.e, a.x)

\* a feasible solution of a returned model
Feasible(i, m, a) == m.status = "model" /\ \A c \in m.constraints : Satisfies(i, c, a)

\* the call create_model(inst)
CallCreateModel ==
    /\ built.status = "pending"
    /\ built' = create_model(inst)
    /\ UNCHANGED << batchVars, inst, sol >>

\* a 0/1 assignment of the instance's variables is put to the constraints
Candidate ==
    /\ built.status # "pending"
    /\ ~sol.picked
    /\ sol' \in Assignments(inst)
    /\ UNCHANGED << batchVars, inst, built >>

InitBuild ==
    /\ binding = "def195"
    /\ pc = "build"
    /\ ids = <<>>
    /\ run = 1
    /\ cwdOut = TRUE
    /\ dirOut = TRUE
    /\ file = NoFile
    /\ file0 = NoFile
    /\ table = create_table
    /\ unsolved_instance_ids = <<>>
    /\ idx = 1
    /\ return_dict = [has |-> FALSE, info |-> NoInfo]
    /\ info = NoInfo
    /\ procs = <<>>
    /\ exc = "none"
    /\ inst \in Instances
    /\ built = NotBuilt
    /\ sol = NoSol

NextBuild ==
    \/ CallCreateModel
    \/ Candidate

SpecBuild == InitBuild /\ [][NextBuild]_vars

----------------------------------------------------------------------------
(* Properties of the built model *)

\* the vertices reached from r along arcs a selects
RECURSIVE Reached(_, _, _, _)
Reached(i, a, r, k) ==
    IF k = 0 THEN {r}
    ELSE LET b == Reached(i, a, r, k - 1)
         IN  b \cup { v \in 0..(i.n - 1) : \E u \in b : <<u, v>> \in ArcsOf(i.E) /\ a.y[<<u, v>>] = 1 }

\* the arcs a selects form an arborescence rooted at root that spans all vertices,
\* and x marks its edges
IsArborescence(i, a) ==
    /\ SumOver(ArcsOf(i.E), a.y) = i.n - 1
    /\ \A v \in (0..(i.n - 1)) \ {i.root} :
          Cardinality({ u \in Neighbors(i.E, v) : a.y[<<u, v>>] = 1 }) = 1
    /\ \A u \in Neighbors(i.E, i.root) : a.y[<<u, i.root>>] = 0
    /\ Reached(i, a, i.root, i.n) = 0..(i.n - 1)
    /\ \A e \in i.E : a.x[e] = a.y[e] + a.y[<<e[2], e[1]>>]

MeetsBounds(i, a) ==
    \A e \in i.E : a.x[e] = 1 =>
        (i.lb_dep[e] <= DepSum(i, e, a.x) /\ DepSum(i, e, a.x) <= i.ub_dep[e])

\* 71: the constraint as the comment above lines 72-76 states it, with a product:
\* l_u - l_v + 1 <= (|V(G)| - d(r, v)) * (1 - y_uv), for v # root, on both orientations
LevelOrderAsCommented(i, a, l) ==
    \A e \in i.E :
        /\ e[2] # i.root =>
              l[e[1]] - l[e[2]] + 1 <= (i.n - distance(i.n, i.E, i.root, e[2])) * (1 - a.y[e])
        /\ e[1] # i.root =>
              l[e[2]] - l[e[1]] + 1 <= (i.n - distance(i.n, i.E, i.root, e[1])) * (1 - a.y[<<e[2], e[1]>>])

\* feasibility for the constraints of lines 53-88 with 72-76 read as that product; the
\* levels are difference constraints with integer data, so integer levels decide it
FeasibleAsCommented(i, a) ==
    /\ \A c \in Constraints(i) : Satisfies(i, c, a)
    /\ \E l \in [0..(i.n - 1) -> 1..i.n] :
          /\ \A v \in 0..(i.n - 1) : distance(i.n, i.E, i.root, v) + 1 <= l[v]
          /\ l[i.root] = 1
          /\ LevelOrderAsCommented(i, a, l)

\* What the comment of line 71 describes does accept exactly the arborescences that
\* meet the bounds (holds under SpecBuild); lines 74 and 76 as written do not build it.
AsCommentedFeasibleIsArborescence ==
    sol.picked =>
        (FeasibleAsCommented(inst, sol) <=> (IsArborescence(inst, sol) /\ MeetsBounds(inst, sol)))

\* C7: on a valid instance create_model returns a model, and the assignments feasible
\* for it are exactly the spanning arborescences rooted at root that meet the
\* dependency bounds.
C7_FeasibleIsArborescence ==
    built.status # "pending" =>
        /\ built.status = "model"
        /\ sol.picked =>
              (Feasible(inst, built, sol) <=> (IsArborescence(inst, sol) /\ MeetsBounds(inst, sol)))

\* C8: for every edge e1 and every assignment, if x[e1] = 1 and the two dependency
\* inequalities of e1 hold then the selected predecessors of e1 number between
\* lb_dep[e1] and ub_dep[e1]; if x[e1] = 0 the two inequalities hold whatever the
\* predecessors are; and index_to_e inverts e_to_index.
C8_DependencyBounds ==
    sol.picked =>
        \A e1 \in inst.E :
            /\ index_to_e(inst.E, e_to_index(inst.E, e1)) = e1
            /\ (sol.x[e1] = 1 /\ DepLower(inst, e1, sol.x) /\ DepUpper(inst, e1, sol.x))
                  => ( /\ inst.lb_dep[e1] <= DepSum(inst, e1, sol.x)
                       /\ DepSum(inst, e1, sol.x) <= inst.ub_dep[e1] )
            /\ sol.x[e1] = 0 => (DepLower(inst, e1, sol.x) /\ DepUpper(inst, e1, sol.x))

C8_Witness ==
    /\ sol.picked
    /\ \E e1 \in inst.E :
          /\ sol.x[e1] = 1
          /\ num_deps(inst, e1) = 2
          /\ inst.lb_dep[e1] = 1
          /\ inst.ub_dep[e1] = 1
          /\ DepSum(inst, e1, sol.x) = 1
          /\ DepLower(inst, e1, sol.x)
          /\ DepUpper(inst, e1, sol.x)
    /\ \E e2 \in inst.E :
          /\ sol.x[e2] = 0
          /\ num_deps(inst, e2) > 0
          /\ DepSum(inst, e2, sol.x) > inst.ub_dep[e2]

====
